---- MODULE Spec2Model ----
(***************************************************************************)
(* Model of public/js/currency_utils.js: the company currency cache, the   *)
(* fallback chain of get_report_currency and the two helpers built on it.  *)
(*                                                                         *)
(* JavaScript values are records [t, v]: t is the type tag, v the string   *)
(* content (the name for a function or an object).  Non-ASCII currency     *)
(* symbols are written by code point: "U+20AC" is the euro sign.           *)
(***************************************************************************)
EXTENDS Integers, Sequences, FiniteSets

VARIABLES currencyCache, companyDocs, globalDefault, sysDefault, cleared, last

vars == <<currencyCache, companyDocs, globalDefault, sysDefault, cleared, last>>

----------------------------------------------------------------------------
(* Bounds *)

NumCompanies == 1

NumAmounts == 1

----------------------------------------------------------------------------
(* JavaScript values *)

Undefined == [t |-> "undefined", v |-> ""]

Null == [t |-> "null", v |-> ""]

Str(s) == [t |-> "string", v |-> s]

Fn(name) == [t |-> "function", v |-> name]

Obj(name) == [t |-> "object", v |-> name]

Num(n) == [t |-> "number", n |-> n]

NoNum(tag) == [t |-> tag, n |-> 0]

Nullish(x) == x.t \in {"undefined", "null"}

\* ToBoolean, as `if (x)`, `x && y` and `x || y` apply it
Truthy(x) ==
    CASE x.t = "string" -> x.v # ""
      [] x.t \in {"undefined", "null"} -> FALSE
      [] OTHER -> TRUE

\* ToString of a value, as a template literal and a property key apply it
ToStr(x) ==
    CASE x.t = "string" -> x.v
      [] x.t = "function" -> "function " \o x.v \o "() { [native code] }"
      [] x.t = "object" -> "[object Object]"
      [] OTHER -> x.t

----------------------------------------------------------------------------
(* Plain objects: own properties over Object.prototype *)

ObjectPrototypeMethods ==
    {"constructor", "toString", "toLocaleString", "valueOf", "hasOwnProperty",
     "isPrototypeOf", "propertyIsEnumerable"}

\* what obj[key] yields for a key that is no own property of an object literal
ObjectPrototypeGet(key) ==
    IF key = "__proto__" THEN Obj("Object.prototype")
    ELSE IF key = "constructor" THEN Fn("Object")
    ELSE IF key \in ObjectPrototypeMethods THEN Fn(key)
    ELSE Undefined

\* obj[key]
GetProperty(own, key) ==
    IF key \in DOMAIN own THEN own[key] ELSE ObjectPrototypeGet(key)

\* faulty variant: the assignment is lost
SetProperty_Noop(own, key, value) == own

\* faulty variant: the key is stored in place of the value
SetProperty_KeyAsValue(own, key, value) ==
    IF key = "__proto__" THEN own
    ELSE [k \in (DOMAIN own) \cup {key} |-> IF k = key THEN Str(key) ELSE own[k]]

\* obj[key] = value, for a primitive value
SetProperty(own, key, value) ==
    IF key = "__proto__" THEN own
    ELSE [k \in (DOMAIN own) \cup {key} |-> IF k = key THEN value ELSE own[k]]

EmptyObject == [k \in {} |-> Undefined]

----------------------------------------------------------------------------
(* Inputs and the host environment *)

CompanyNames == <<"AcmeCo", "Globex", "Initech">>

Companies == {CompanyNames[i] : i \in 1..NumCompanies}

\* company names the record store can be asked for
StoreKeys == Companies \cup {"constructor"}

\* the company argument: absent, empty, or a name
CompanyArgs == {Undefined, Str("")} \cup {Str(k) : k \in StoreKeys}

Threw == [kind |-> "throws", val |-> Undefined]

Returned(x) == [kind |-> "returns", val |-> x]

\* frappe.get_doc('Company', name): throws, no document, or a document
\* whose default_currency is the value
DocOutcomes ==
    {Threw, Returned(Null), Returned(Str("")), Returned(Str("USD")), Returned(Str("EUR"))}

\* frappe.defaults.get_default('currency')
GlobalOutcomes == {Threw, Returned(Str("")), Returned(Str("GBP"))}

\* frappe.sys_defaults.currency
SysOutcomes == {Threw, Returned(Str("")), Returned(Str("JPY"))}

\* frappe.format(amount, {fieldtype: 'Currency', options: currency})
FormatOutcomes == {Threw, Returned(Str("<formatted>"))}

\* the company argument of the helpers
HelperCompanyArgs == {Undefined} \cup {Str(k) : k \in StoreKeys}

\* host environments in which each collaborator either fails or has a value
HelperDocOutcomes == {Threw, Returned(Str("EUR"))}

HelperGlobalOutcomes == {Threw, Returned(Str("GBP"))}

HelperSysOutcomes == {Threw, Returned(Str("JPY"))}

AmountValues == <<1234567, 999, 1000>>

\* the amount argument: missing, or a number
AmountArgs == {NoNum("undefined")} \cup {Num(AmountValues[i]) : i \in 1..NumAmounts}

----------------------------------------------------------------------------
(* get_report_currency *)

\* the result of a call: returned value, cache afterwards, collaborators
\* touched in order, and whether an exception left the function
Result(ret, cache, calls) ==
    [ret |-> ret, cache |-> cache, calls |-> calls, raised |-> FALSE]

\* faulty variant: the cache is never consulted
CachedCurrency_Miss(cache, company) == Undefined

\* currencyCache[company], read only when company is truthy
CachedCurrency(cache, company) ==
    IF Truthy(company) THEN GetProperty(cache, company.v) ELSE Undefined

\* company_doc && company_doc.default_currency inside the try block;
\* a throw is caught and leaves nothing
CompanyCurrency(docs, company) ==
    LET doc == docs[company.v] IN
    IF doc.kind = "returns" /\ Truthy(doc.val) THEN doc.val ELSE Undefined

\* frappe.defaults.get_default('currency') inside its try block
GlobalCurrency(gdef) ==
    IF gdef.kind = "returns" /\ Truthy(gdef.val) THEN gdef.val ELSE Undefined

\* frappe.sys_defaults.currency inside its try block
SystemCurrency(sdef) ==
    IF sdef.kind = "returns" /\ Truthy(sdef.val) THEN sdef.val ELSE Undefined

get_report_currency(cache, docs, gdef, sdef, company) ==
    LET cached == CachedCurrency(cache, company)
        c0 == IF Truthy(company) THEN <<"cache">> ELSE <<>>
        c1 == IF Truthy(company) THEN c0 \o <<"get_doc">> ELSE c0
        c2 == c1 \o <<"get_default">>
        c3 == c2 \o <<"sys_defaults">>
        fromDoc == IF Truthy(company) THEN CompanyCurrency(docs, company) ELSE Undefined
    IN
    IF Truthy(company) /\ Truthy(cached) THEN Result(cached, cache, c0)
    ELSE IF Truthy(fromDoc)
    THEN Result(fromDoc, SetProperty(cache, company.v, fromDoc), c1)
    ELSE IF Truthy(GlobalCurrency(gdef)) THEN Result(GlobalCurrency(gdef), cache, c2)
    ELSE IF Truthy(SystemCurrency(sdef)) THEN Result(SystemCurrency(sdef), cache, c3)
    ELSE Result(Str("INR"), cache, c3)

\* faulty variant: the cache is left as it is
clear_currency_cache_Keep == currencyCache

clear_currency_cache == EmptyObject

----------------------------------------------------------------------------
(* Number.prototype.toLocaleString() of an integer, en-US grouping *)

Digit(d) ==
    CASE d = 0 -> "0" [] d = 1 -> "1" [] d = 2 -> "2" [] d = 3 -> "3" [] d = 4 -> "4"
      [] d = 5 -> "5" [] d = 6 -> "6" [] d = 7 -> "7" [] d = 8 -> "8" [] d = 9 -> "9"

RECURSIVE NatToString(_)
NatToString(n) ==
    IF n < 10 THEN Digit(n) ELSE NatToString(n \div 10) \o Digit(n % 10)

Pad3(n) == Digit(n \div 100) \o Digit((n \div 10) % 10) \o Digit(n % 10)

RECURSIVE GroupThousands(_)
GroupThousands(n) ==
    IF n < 1000 THEN NatToString(n)
    ELSE GroupThousands(n \div 1000) \o "," \o Pad3(n % 1000)

toLocaleString(n) ==
    IF n < 0 THEN "-" \o GroupThousands(-n) ELSE GroupThousands(n)

----------------------------------------------------------------------------
(* format_currency_js and get_currency_symbol *)

HelperResult(ret, raised, used, cache, calls) ==
    [ret |-> ret, raised |-> raised, used |-> used, cache |-> cache, calls |-> calls]

\* faulty variant: a missing currency becomes the literal fallback, the company unused
DefaultCurrency_Literal(cache, docs, gdef, sdef, currency, company) ==
    IF currency.t = "undefined" \/ currency.t = "null"
    THEN Result(Str("INR"), cache, <<>>)
    ELSE Result(currency, cache, <<>>)

\* faulty variant: the test is `!currency`, so the empty string is resolved too
DefaultCurrency_Falsy(cache, docs, gdef, sdef, currency, company) ==
    IF ~Truthy(currency)
    THEN get_report_currency(cache, docs, gdef, sdef, company)
    ELSE Result(currency, cache, <<>>)

\* the default-argument path shared by both helpers
DefaultCurrency(cache, docs, gdef, sdef, currency, company) ==
    IF currency.t = "undefined" \/ currency.t = "null"
    THEN get_report_currency(cache, docs, gdef, sdef, company)
    ELSE Result(currency, cache, <<>>)

format_currency_js(cache, docs, gdef, sdef, fmt, amount, currency, company) ==
    LET res == DefaultCurrency(cache, docs, gdef, sdef, currency, company)
        calls == res.calls \o <<"format">>
    IN
    IF fmt.kind = "returns"
    THEN HelperResult(fmt.val, FALSE, res.ret, res.cache, calls)
    ELSE IF amount.t # "number"
    THEN \* amount.toLocaleString() on undefined or null: TypeError out of the catch
         HelperResult(Undefined, TRUE, res.ret, res.cache, calls)
    ELSE HelperResult(Str(ToStr(res.ret) \o " " \o toLocaleString(amount.n)),
                      FALSE, res.ret, res.cache, calls)

SymbolCodes ==
    {"INR", "USD", "EUR", "GBP", "JPY", "CNY", "AUD", "CAD", "CHF", "SGD", "AED", "SAR"}

currency_symbols ==
    [code \in SymbolCodes |->
        Str(CASE code = "INR" -> "U+20B9"
              [] code = "USD" -> "$"
              [] code = "EUR" -> "U+20AC"
              [] code = "GBP" -> "U+00A3"
              [] code = "JPY" -> "U+00A5"
              [] code = "CNY" -> "U+00A5"
              [] code = "AUD" -> "A$"
              [] code = "CAD" -> "C$"
              [] code = "CHF" -> "Fr"
              [] code = "SGD" -> "S$"
              [] code = "AED" -> "U+062F.U+0625"
              [] code = "SAR" -> "U+FDFC")]

get_currency_symbol(cache, docs, gdef, sdef, currency, company) ==
    LET res == DefaultCurrency(cache, docs, gdef, sdef, currency, company)
        symbol == GetProperty(currency_symbols, ToStr(res.ret))
    IN
    HelperResult(IF Truthy(symbol) THEN symbol ELSE res.ret,
                 FALSE, res.ret, res.cache, res.calls)

\* the currency argument of get_currency_symbol
SymbolCurrencyArgs ==
    {Undefined, Null, Str(""), Str("XYZ"), Str("constructor")}
      \cup {Str(code) : code \in SymbolCodes}

\* the currency argument of format_currency_js
FormatCurrencyArgs == {Undefined, Null, Str(""), Str("USD")}

----------------------------------------------------------------------------
(* State *)

\* `last` is the most recent call as its caller sees it, with what the call
\* found on entry: cached (the company was a key of the cache), afterClear
\* (the company's entry was dropped by a clear and not looked up since),
\* repeat (the call before was the same call, nothing in between).
\* `cleared` is the set of keys dropped by a clear and not looked up since.
NoCall ==
    [op |-> "none", company |-> Undefined, currency |-> Undefined,
     amount |-> NoNum("undefined"), format |-> Threw, used |-> Undefined,
     ret |-> Undefined, raised |-> FALSE, calls |-> <<>>,
     cached |-> FALSE, afterClear |-> FALSE, repeat |-> FALSE]

Init ==
    /\ currencyCache = EmptyObject
    /\ companyDocs \in [StoreKeys -> DocOutcomes]
    /\ globalDefault \in GlobalOutcomes
    /\ sysDefault \in SysOutcomes
    /\ cleared = {}
    /\ last = NoCall

GetReportCurrency ==
    \E company \in CompanyArgs :
      \E r \in {get_report_currency(currencyCache, companyDocs, globalDefault,
                                    sysDefault, company)} :
        /\ currencyCache' = r.cache
        /\ cleared' = cleared \ {company.v}
        /\ last' = [NoCall EXCEPT !.op = "get_report_currency", !.company = company,
                                  !.ret = r.ret, !.raised = r.raised, !.calls = r.calls,
                                  !.cached = company.v \in DOMAIN currencyCache,
                                  !.afterClear = company.v \in cleared,
                                  !.repeat = (last.op = "get_report_currency"
                                              /\ last.company = company)]
        /\ UNCHANGED <<companyDocs, globalDefault, sysDefault>>

FormatCurrencyJs ==
    \E amount \in AmountArgs, currency \in FormatCurrencyArgs,
       company \in HelperCompanyArgs, fmt \in FormatOutcomes :
      \E r \in {format_currency_js(currencyCache, companyDocs, globalDefault,
                                   sysDefault, fmt, amount, currency, company)} :
        /\ currencyCache' = r.cache
        /\ cleared' = IF Nullish(currency) THEN cleared \ {company.v} ELSE cleared
        /\ last' = [NoCall EXCEPT !.op = "format_currency_js", !.company = company,
                                  !.currency = currency, !.amount = amount,
                                  !.format = fmt, !.used = r.used, !.ret = r.ret,
                                  !.raised = r.raised, !.calls = r.calls,
                                  !.cached = company.v \in DOMAIN currencyCache]
        /\ UNCHANGED <<companyDocs, globalDefault, sysDefault>>

GetCurrencySymbol ==
    \E currency \in SymbolCurrencyArgs, company \in HelperCompanyArgs :
      \E r \in {get_currency_symbol(currencyCache, companyDocs, globalDefault,
                                    sysDefault, currency, company)} :
        /\ currencyCache' = r.cache
        /\ cleared' = IF Nullish(currency) THEN cleared \ {company.v} ELSE cleared
        /\ last' = [NoCall EXCEPT !.op = "get_currency_symbol", !.company = company,
                                  !.currency = currency, !.used = r.used,
                                  !.ret = r.ret, !.raised = r.raised, !.calls = r.calls,
                                  !.cached = company.v \in DOMAIN currencyCache]
        /\ UNCHANGED <<companyDocs, globalDefault, sysDefault>>

ClearCurrencyCache ==
    /\ currencyCache' = clear_currency_cache
    /\ cleared' = cleared \cup DOMAIN currencyCache
    /\ last' = [NoCall EXCEPT !.op = "clear_currency_cache"]
    /\ UNCHANGED <<companyDocs, globalDefault, sysDefault>>

\* the host application changes a company record or a default
EnvChanged == [NoCall EXCEPT !.op = "env"]

SetCompanyDoc ==
    \E k \in StoreKeys, d \in DocOutcomes :
      /\ companyDocs' = [companyDocs EXCEPT ![k] = d]
      /\ last' = EnvChanged
      /\ UNCHANGED <<currencyCache, globalDefault, sysDefault, cleared>>

SetGlobalDefault ==
    \E g \in GlobalOutcomes :
      /\ globalDefault' = g
      /\ last' = EnvChanged
      /\ UNCHANGED <<currencyCache, companyDocs, sysDefault, cleared>>

SetSysDefault ==
    \E s \in SysOutcomes :
      /\ sysDefault' = s
      /\ last' = EnvChanged
      /\ UNCHANGED <<currencyCache, companyDocs, globalDefault, cleared>>

Next ==
    \/ GetReportCurrency
    \/ ClearCurrencyCache
    \/ SetCompanyDoc
    \/ SetGlobalDefault
    \/ SetSysDefault

Spec == Init /\ [][Next]_vars

\* the four exported functions in a host environment that stays as it is
InitHelpers ==
    /\ currencyCache = EmptyObject
    /\ companyDocs \in [StoreKeys -> HelperDocOutcomes]
    /\ globalDefault \in HelperGlobalOutcomes
    /\ sysDefault \in HelperSysOutcomes
    /\ cleared = {}
    /\ last = NoCall

NextHelpers ==
    \/ GetReportCurrency
    \/ FormatCurrencyJs
    \/ GetCurrencySymbol
    \/ ClearCurrencyCache

SpecHelpers == InitHelpers /\ [][NextHelpers]_vars

----------------------------------------------------------------------------
(* Properties *)

Range(seq) == {seq[i] : i \in 1..Len(seq)}

IsGet(l) == l.op = "get_report_currency"

IsFormat(l) == l.op = "format_currency_js"

IsSymbol(l) == l.op = "get_currency_symbol"

IsHelper(l) == IsFormat(l) \/ IsSymbol(l)

IsClear(l) == l.op = "clear_currency_cache"

Collaborators == {"get_doc", "get_default", "sys_defaults"}

\* the fallback order as the specification words it: company record, global
\* default, system default, "INR"; a source counts when it succeeds non-empty
FirstAvailable(docs, gdef, sdef, company) ==
    IF company.t = "string" /\ company.v # ""
       /\ docs[company.v].kind = "returns" /\ docs[company.v].val.t = "string"
       /\ docs[company.v].val.v # ""
    THEN docs[company.v].val
    ELSE IF gdef.kind = "returns" /\ gdef.val.t = "string" /\ gdef.val.v # ""
    THEN gdef.val
    ELSE IF sdef.kind = "returns" /\ sdef.val.t = "string" /\ sdef.val.v # ""
    THEN sdef.val
    ELSE Str("INR")

\* C1: a cached entry stays as it is through every step that is not a clear,
\* whatever happens to the company record and the defaults, and a
\* get_report_currency for a cached company returns the cached value without
\* asking the record store.
C1_CachedValueUntilCleared ==
    [][\A k \in DOMAIN currencyCache :
         /\ ~IsClear(last') =>
              k \in DOMAIN currencyCache' /\ currencyCache'[k] = currencyCache[k]
         /\ (IsGet(last') /\ last'.company = Str(k)) =>
              /\ last'.ret = currencyCache[k]
              /\ "get_doc" \notin Range(last'.calls)]_vars

\* C1 witness: a cache hit that returned a value the company record no
\* longer has.
C1_Witness ==
    \E k \in Companies :
      /\ IsGet(last) /\ last.company = Str(k) /\ last.cached
      /\ last.calls = <<"cache">>
      /\ companyDocs[k] # Returned(last.ret)
      /\ currencyCache[k] = last.ret

\* C2: for a company that is not in the cache, get_report_currency returns
\* the first available of company record, global default, system default
\* and "INR".
C2_FirstAvailableWhenNotCached ==
    (IsGet(last) /\ ~last.cached) =>
        last.ret = FirstAvailable(companyDocs, globalDefault, sysDefault, last.company)

\* C3: get_report_currency never raises and always returns a non-empty
\* string.
C3_NonEmptyString ==
    IsGet(last) => ~last.raised /\ last.ret.t = "string" /\ last.ret.v # ""

\* C4: clear_currency_cache leaves the cache empty, and the next
\* get_report_currency for a company whose entry it dropped misses the cache,
\* asks the record store first and returns what the chain yields then.
C4_ClearThenFullChain ==
    /\ IsClear(last) => DOMAIN currencyCache = {}
    /\ (IsGet(last) /\ last.afterClear) =>
         /\ ~last.cached
         /\ Len(last.calls) >= 2
         /\ last.calls[1] = "cache" /\ last.calls[2] = "get_doc"
         /\ last.ret = FirstAvailable(companyDocs, globalDefault, sysDefault,
                                      last.company)

\* C4 witness: the first call for a company after a clear dropped its
\* entry; it went to the record store and returned the record's value.
C4_Witness ==
    \E k \in Companies :
      /\ IsGet(last) /\ last.afterClear /\ last.company = Str(k)
      /\ last.calls = <<"cache", "get_doc">>
      /\ last.ret = Str("EUR")
      /\ companyDocs[k] = Returned(Str("EUR"))

C6_DefaultCurrencyResolved ==
    [][IsHelper(last') =>
         /\ Nullish(last'.currency) =>
              last'.used = get_report_currency(currencyCache, companyDocs,
                               globalDefault, sysDefault, last'.company).ret
         /\ ~Nullish(last'.currency) => last'.used = last'.currency
         /\ (IsSymbol(last') /\ Nullish(last'.currency) /\ last'.used = Str("EUR")) =>
              last'.ret = Str("U+20AC")]_vars

\* C6 witness: get_currency_symbol(undefined, company) for a company that
\* resolves to "EUR" through its record.
C6_Witness ==
    \E k \in Companies :
      /\ IsSymbol(last) /\ last.currency = Undefined /\ last.company = Str(k)
      /\ "get_doc" \in Range(last.calls)
      /\ last.used = Str("EUR") /\ last.ret = Str("U+20AC")

\* C6 as stated: also when the currency argument is the empty string, the
\* currency used is what get_report_currency(company) returns.
C6_EmptyCurrencyResolved ==
    [][(IsHelper(last') /\ (Nullish(last'.currency) \/ last'.currency = Str(""))) =>
         last'.used = get_report_currency(currencyCache, companyDocs,
                          globalDefault, sysDefault, last'.company).ret]_vars

\* C7: format_currency_js never raises and returns a string: the
\* formatter's result when it succeeds, else the currency code, one space
\* and the thousands-grouped amount.
C7_FormatNeverRaises ==
    IsFormat(last) =>
        /\ ~last.raised
        /\ last.ret.t = "string"
        /\ last.format.kind = "returns" => last.ret = last.format.val
        /\ last.format.kind = "throws" =>
             last.ret = Str(ToStr(last.used) \o " " \o toLocaleString(last.amount.n))

\* C8: get_currency_symbol never raises; for a code of the symbol table it
\* returns the table's symbol, for any other string the string itself.
C8_SymbolOrIdentity ==
    (IsSymbol(last) /\ last.used.t = "string") =>
        /\ ~last.raised
        /\ last.ret = IF last.used.v \in SymbolCodes
                      THEN currency_symbols[last.used.v]
                      ELSE last.used

\* C9: a get_report_currency that directly follows the same call, with no
\* clear and no change of the records or defaults in between, returns what
\* that call returned.
C9_Idempotent ==
    [][(IsGet(last) /\ IsGet(last') /\ last'.company = last.company) =>
         last'.ret = last.ret]_vars

\* C9 witness: a repeated call answered from the cache that the call before
\* it filled.
C9_Witness ==
    \E k \in Companies :
      /\ IsGet(last) /\ last.repeat /\ last.company = Str(k)
      /\ last.cached /\ last.calls = <<"cache">>
      /\ companyDocs[k] = Returned(last.ret)

\* C10: a helper called with a currency that is neither undefined nor null
\* leaves the cache as it is and touches neither the cache nor the record
\* store nor the defaults; a helper changes the cache only on the
\* default-argument path, by the record store step of get_report_currency;
\* only clear_currency_cache removes an entry.
C10_HelpersFrame ==
    [][/\ (IsHelper(last') /\ ~Nullish(last'.currency)) =>
            /\ currencyCache' = currencyCache
            /\ Range(last'.calls) \cap ({"cache"} \cup Collaborators) = {}
       /\ (IsHelper(last') /\ currencyCache' # currencyCache) =>
            /\ Nullish(last'.currency)
            /\ "get_doc" \in Range(last'.calls)
            /\ currencyCache' =
                 get_report_currency(currencyCache, companyDocs, globalDefault,
                                     sysDefault, last'.company).cache
       /\ (\E k \in DOMAIN currencyCache : k \notin DOMAIN currencyCache') =>
            IsClear(last')]_vars

\* C10 witness: a helper given the empty string as currency and a company
\* whose record has a currency, the cache still without that company.
C10_Witness ==
    \E k \in Companies :
      /\ IsHelper(last) /\ last.currency = Str("") /\ last.company = Str(k)
      /\ companyDocs[k] = Returned(Str("EUR"))
      /\ k \notin DOMAIN currencyCache

====
